---- MODULE Spec2Model ----
(***************************************************************************)
(* Model of fix_escaping.py: the script reads SymbolDB.ts in full, applies *)
(* re.sub(r"'\\fa", r"'\\\\fa", content) and writes the result back to the *)
(* same path.  A document is a sequence of characters; the token "cmd: "   *)
(* (the field the script's comments name) is kept as one symbol.           *)
(***************************************************************************)
EXTENDS Integers, Sequences, FiniteSets, TLC

VARIABLES
  file,         \* the text of SymbolDB.ts on disk
  handle,       \* the open file object: "closed", "r" or "w"
  pc,           \* the statement the script is at, or how it ended
  content,      \* line 4: the text read
  new_content,  \* line 24: the text after the substitution
  stdout,       \* what the script has printed (it has no print statement)
  run,          \* which run of the script this is
  orig          \* the text of the file when this run started

vars == <<file, handle, pc, content, new_content, stdout, run, orig>>

(* ------------------------------ bounds --------------------------------- *)
MaxLen == 7
MaxFileLen == 5
MaxRuns == 2

(* ---------------------------- characters ------------------------------- *)
QUOTE == "'"
BACKSLASH == "\\"
FieldMarker == "cmd: "
Alphabet == {QUOTE, BACKSLASH, "f", "a", FieldMarker}

Docs(n) == UNION {[1..k -> Alphabet] : k \in 0..n}

(* ------------------- the two raw-string arguments ---------------------- *)
\* Variant: the pattern keyed on the prefix alone, r"\\fa".
PATTERN_NoQuote == <<BACKSLASH, BACKSLASH, "f", "a">>
\* r"'\\fa" : quote, backslash, backslash, f, a
PATTERN == <<QUOTE, BACKSLASH, BACKSLASH, "f", "a">>

\* Variant: the template r"'\\fa", which expands to the matched text.
REPL_Same == <<QUOTE, BACKSLASH, BACKSLASH, "f", "a">>
\* r"'\\\\fa" : quote, four backslashes, f, a
REPL == <<QUOTE, BACKSLASH, BACKSLASH, BACKSLASH, BACKSLASH, "f", "a">>

(* ----------------------- the re module's part -------------------------- *)
\* One escape of a pattern or of a replacement template: backslash-backslash
\* stands for a backslash, backslash-f for a form feed.
Escape(c) == IF c = "f" THEN "\f" ELSE c

\* Variant: the arguments taken character for character, escapes not read.
Unescape_Raw(s) == s

\* A pattern without metacharacters, or a template without group references,
\* read into the literal text it stands for.

RECURSIVE Unescape(_)
Unescape(s) ==
  IF s = <<>> THEN <<>>
  ELSE IF Head(s) = BACKSLASH /\ Len(s) >= 2
       THEN <<Escape(s[2])>> \o Unescape(SubSeq(s, 3, Len(s)))
       ELSE <<Head(s)>> \o Unescape(Tail(s))

\* The literal lit matches the text s at position i.
MatchAt(lit, s, i) ==
  /\ i + Len(lit) - 1 <= Len(s)
  /\ \A k \in 1..Len(lit) : s[i + k - 1] = lit[k]

\* Variant: the scan resumes one character too far after a match.
RECURSIVE Scan_SkipsOne(_, _, _, _, _, _)
Scan_SkipsOne(lit, rep, s, i, acc, n) ==
  IF i > Len(s) THEN [text |-> acc, count |-> n]
  ELSE IF MatchAt(lit, s, i)
       THEN Scan_SkipsOne(lit, rep, s, i + Len(lit) + 1, acc \o rep, n + 1)
       ELSE Scan_SkipsOne(lit, rep, s, i + 1, Append(acc, s[i]), n)

\* The left-to-right scan of re.sub: at a match emit the replacement and
\* continue after the match, elsewhere copy one character.
RECURSIVE Scan(_, _, _, _, _, _)
Scan(lit, rep, s, i, acc, n) ==
  IF i > Len(s) THEN [text |-> acc, count |-> n]
  ELSE IF MatchAt(lit, s, i)
       THEN Scan(lit, rep, s, i + Len(lit), acc \o rep, n + 1)
       ELSE Scan(lit, rep, s, i + 1, Append(acc, s[i]), n)

\* re.subn(pattern, repl, s): the new text and the number of substitutions.
ReSubN(pattern, repl, s) == Scan(Unescape(pattern), Unescape(repl), s, 1, <<>>, 0)

\* re.sub(pattern, repl, s)
ReSub(pattern, repl, s) == ReSubN(pattern, repl, s).text

\* The number of occurrences the substitution of line 24 rewrites.
OccurrencesChanged(s) == ReSubN(PATTERN, REPL, s).count

Prefixes(s) == {SubSeq(s, 1, k) : k \in 0..Len(s)}

(* ------------------------------ the script ----------------------------- *)
TypeOK ==
  /\ file \in Seq(Alphabet)
  /\ content \in Seq(Alphabet)
  /\ new_content \in Seq(Alphabet)
  /\ handle \in {"closed", "r", "w"}
  /\ pc \in {"open_r", "read", "sub", "open_w", "write", "done",
             "read_error", "write_error"}
  /\ run \in 1..MaxRuns
  /\ stdout = <<>>

Init ==
  /\ file \in Docs(MaxFileLen)
  /\ orig = file
  /\ handle = "closed"
  /\ pc = "open_r"
  /\ content = <<>>
  /\ new_content = <<>>
  /\ stdout = <<>>
  /\ run = 1

\* Variant: the file opened with mode 'w+', which truncates it.
OpenRead_WPlus ==
  /\ pc = "open_r"
  /\ handle' = "w"
  /\ file' = <<>>
  /\ pc' = "read"
  /\ UNCHANGED <<content, new_content, stdout, run, orig>>

\* with open(path, 'r') as f:
OpenRead ==
  /\ pc = "open_r"
  /\ handle' = "r"
  /\ pc' = "read"
  /\ UNCHANGED <<file, content, new_content, stdout, run, orig>>

\* open raises (missing or unreadable file): the script ends with a traceback.
OpenReadFail ==
  /\ pc = "open_r"
  /\ pc' = "read_error"
  /\ UNCHANGED <<file, handle, content, new_content, stdout, run, orig>>

\* content = f.read(), then the with block closes the handle.
ReadAll ==
  /\ pc = "read"
  /\ content' = file
  /\ handle' = "closed"
  /\ pc' = "sub"
  /\ UNCHANGED <<file, new_content, stdout, run, orig>>

\* f.read() raises: the with block closes the handle, the script ends.
ReadFail ==
  /\ pc = "read"
  /\ handle' = "closed"
  /\ pc' = "read_error"
  /\ UNCHANGED <<file, content, new_content, stdout, run, orig>>

\* new_content = re.sub(r"'\\fa", r"'\\\\fa", content)
Substitute ==
  /\ pc = "sub"
  /\ new_content' = ReSub(PATTERN, REPL, content)
  /\ pc' = "open_w"
  /\ UNCHANGED <<file, handle, content, stdout, run, orig>>

\* with open(path, 'w') as f: mode 'w' truncates the file when it opens.
OpenWrite ==
  /\ pc = "open_w"
  /\ file' = <<>>
  /\ handle' = "w"
  /\ pc' = "write"
  /\ UNCHANGED <<content, new_content, stdout, run, orig>>

\* open raises (no write permission): nothing was truncated.
OpenWriteFail ==
  /\ pc = "open_w"
  /\ pc' = "write_error"
  /\ UNCHANGED <<file, handle, content, new_content, stdout, run, orig>>

\* f.write(new_content), then the with block flushes and closes.
WriteAll ==
  /\ pc = "write"
  /\ file' = new_content
  /\ handle' = "closed"
  /\ pc' = "done"
  /\ UNCHANGED <<content, new_content, stdout, run, orig>>

\* write, flush or close raises: some prefix of the text reached the file.
WriteFail ==
  /\ pc = "write"
  /\ file' \in Prefixes(new_content)
  /\ handle' = "closed"
  /\ pc' = "write_error"
  /\ UNCHANGED <<content, new_content, stdout, run, orig>>

\* The script is started again on the file it left: a fresh process.
Rerun ==
  /\ pc = "done"
  /\ run < MaxRuns
  /\ run' = run + 1
  /\ orig' = file
  /\ content' = <<>>
  /\ new_content' = <<>>
  /\ pc' = "open_r"
  /\ UNCHANGED <<file, handle, stdout>>

Next ==
  \/ OpenRead
  \/ OpenReadFail
  \/ ReadAll
  \/ ReadFail
  \/ Substitute
  \/ OpenWrite
  \/ OpenWriteFail
  \/ WriteAll
  \/ WriteFail
  \/ Rerun

Spec == Init /\ [][Next]_vars

(* ------------- the substitution on documents already read -------------- *)
\* The run from line 24 on, for every document the read can have returned,
\* when opening and writing the file succeed.
InitSub ==
  /\ content \in Docs(MaxLen)
  /\ file = content
  /\ orig = content
  /\ handle = "closed"
  /\ pc = "sub"
  /\ new_content = <<>>
  /\ stdout = <<>>
  /\ run = 1

NextSub ==
  \/ Substitute
  \/ OpenWrite
  \/ WriteAll

SpecSub == InitSub /\ [][NextSub]_vars

(* ------------------- the grammar the claims speak of ------------------- *)
\* Characters a..b of s; a position past the end reads as "<end>".
Slice(s, a, b) == [k \in 1..(b - a + 1) |->
                     IF a + k - 1 \in 1..Len(s) THEN s[a + k - 1] ELSE "<end>"]

\* At j: a quote, a run of exactly n backslashes, then the prefix fa.
RunAt(s, j, n) ==
  /\ j >= 1
  /\ j + n + 2 <= Len(s)
  /\ s[j] = QUOTE
  /\ \A k \in 1..n : s[j + k] = BACKSLASH
  /\ s[j + n + 1] = "f"
  /\ s[j + n + 2] = "a"

\* At i: a Literal Entry, the field marker followed by RunAt.
EntryAt(s, i, n) == i >= 1 /\ i <= Len(s) /\ s[i] = FieldMarker /\ RunAt(s, i + 1, n)

Runs(s) == {jn \in (1..Len(s)) \X (1..Len(s)) : RunAt(s, jn[1], jn[2])}
Entries(s) == {jn \in (1..Len(s)) \X (1..Len(s)) : EntryAt(s, jn[1], jn[2])}

\* The quotes that open the unsafe form: one backslash before fa.
Unsafe(s) == {j \in 1..Len(s) : RunAt(s, j, 1)}

\* Where character k lands when one character is inserted after each of the
\* positions u that precede it.
Shift(u, k) == k + Cardinality({j \in u : j < k})

\* s without the characters at the positions of drop.
RECURSIVE Without(_, _, _)
Without(s, drop, k) ==
  IF k > Len(s) THEN <<>>
  ELSE (IF k \in drop THEN <<>> ELSE <<s[k]>>) \o Without(s, drop, k + 1)

Entry(n) == <<FieldMarker, QUOTE>> \o [k \in 1..n |-> BACKSLASH] \o <<"f", "a">>

Substituted == pc \in {"open_w", "write", "done", "write_error"}

(* -------------------------------- C1 ----------------------------------- *)
\* C1: a second run on the file the first run wrote changes nothing: its
\* substitution rewrites 0 occurrences, its output text is its input text,
\* and the file it leaves is the file it found.
C1_Idempotent ==
  /\ (run >= 2 /\ Substituted) =>
        /\ content = orig
        /\ new_content = content
        /\ OccurrencesChanged(content) = 0
  /\ (run >= 2 /\ pc = "done") => file = orig

\* The second run has finished on a file the first run lengthened.
C1_Witness ==
  /\ run = 2
  /\ pc = "done"
  /\ Len(orig) > MaxFileLen
  /\ \E j \in 1..Len(orig) : RunAt(orig, j, 2)

(* -------------------------------- C2 ----------------------------------- *)
\* C2: a quote-backslashes-fa sequence that no field marker precedes (a
\* literal of another field) is the same text after the correction.
C2_Locality ==
  pc = "open_w" =>
    LET u == Unsafe(content) IN
    \A jn \in Runs(content) :
      (jn[1] = 1 \/ content[jn[1] - 1] # FieldMarker) =>
        Slice(new_content, Shift(u, jn[1]), Shift(u, jn[1]) + jn[2] + 2)
          = Slice(content, jn[1], jn[1] + jn[2] + 2)

C4_DoubleKept ==
  pc = "open_w" =>
    LET u == Unsafe(content) IN
    /\ \A i \in 1..Len(content) :
         EntryAt(content, i, 2) =>
           Slice(new_content, Shift(u, i), Shift(u, i) + 5) = Entry(2)
    /\ (\A jn \in Runs(content) : jn[2] = 2) =>
         /\ new_content = content
         /\ OccurrencesChanged(content) = 0

\* A document whose only occurrence is an entry with two backslashes.
C4_Witness ==
  /\ pc = "open_w"
  /\ \E i \in 1..Len(content) : EntryAt(content, i, 2)
  /\ \A jn \in Runs(content) : jn[2] = 2

C6_CountIsEntries ==
  pc = "open_w" =>
    OccurrencesChanged(content)
      = Cardinality({i \in 1..Len(content) : EntryAt(content, i, 1)})

C8_OriginalIntact == pc = "write_error" => file = orig

(* -------------------------------- C9 ----------------------------------- *)
\* C9: the file is opened for writing, and changed, only after the whole
\* document has been read and the substitution has produced new_content; a
\* run whose read fails stops there with the file as it found it and no
\* handle open.
C9_WriteAfterCorrection ==
  /\ [][((handle' = "w" /\ handle # "w") \/ file' # file) =>
          /\ pc \in {"open_w", "write"}
          /\ content = orig
          /\ new_content = ReSub(PATTERN, REPL, content)]_vars
  /\ [][pc = "read_error" => pc' = "read_error"]_vars
  /\ [](pc = "read_error" => file = orig /\ handle = "closed")

\* The file is open for writing with a correction to write.
C9_Witness ==
  /\ pc = "write"
  /\ handle = "w"
  /\ content = orig
  /\ new_content # content

(* -------------------------------- C10 ---------------------------------- *)
\* C10: the output is the input with one backslash inserted right after the
\* quote of each quote-backslash-fa: every input character is kept in order,
\* the length grows by the number of matches, and taking the inserted
\* backslashes out gives the input back.
C10_InsertionOnly ==
  pc = "open_w" =>
    LET u == Unsafe(content) IN
    /\ OccurrencesChanged(content) = Cardinality(u)
    /\ Len(new_content) = Len(content) + OccurrencesChanged(content)
    /\ \A k \in 1..Len(content) :
         Slice(new_content, Shift(u, k), Shift(u, k)) = <<content[k]>>
    /\ \A j \in u :
         Slice(new_content, Shift(u, j) + 1, Shift(u, j) + 1) = <<BACKSLASH>>
    /\ Without(new_content, {Shift(u, j) + 1 : j \in u}, 1) = content

\* A document with a match between other text has been substituted.
C10_Witness ==
  /\ pc = "open_w"
  /\ \E j \in Unsafe(content) : j > 1 /\ j + 3 < Len(content)

====
